---------------------------- MODULE Spec2Model ----------------------------
(***************************************************************************)
(* Model of GatekeeperAgent (src/gatekeeper_agent.py): the router that     *)
(* validates an AgentAction and dispatches it to the PatientAgent or the   *)
(* ExaminationAgent.                                                       *)
(*                                                                         *)
(* Strings that the code inspects (action.content, the indicator phrases)  *)
(* are sequences of one-character strings, so that str.lower() and the     *)
(* substring test `in` are computed, not assumed.  Strings that the code   *)
(* only passes around (messages, identifiers) are TLA+ strings.            *)
(***************************************************************************)
EXTENDS Integers, Sequences, FiniteSets, TLC

VARIABLES
  self,             \* the GatekeeperAgent instance: its four attributes
  caseFiles,        \* the caller's CaseFile objects, by reference
  inputs,           \* the AgentActions the caller may submit
  op,               \* the method called last ("init" after construction)
  arg,              \* the arguments of the last call
  calls,            \* sub-agent invocations made by the last call, in order
  ret,              \* how the last call ended: a return value or a raise
  firstValidation   \* history: the first validate_request call and its result

vars == <<self, caseFiles, inputs, op, arg, calls, ret, firstValidation>>

----------------------------------------------------------------------------
(* Bounds *)

\* longest run of extra characters put before and after a phrase
MaxPad == 1
\* number of CaseFile objects the caller owns
NumCases == 2
\* number of distinct GatekeeperResponse values a sub-agent can return
NumResponses == 2

----------------------------------------------------------------------------
(* Characters and the two string built-ins the code uses *)

UpperLetters ==
  <<"A","B","C","D","E","F","G","H","I","J","K","L","M","N","O","P","Q","R","S","T","U","V","W","X","Y","Z">>
LowerLetters ==
  <<"a","b","c","d","e","f","g","h","i","j","k","l","m","n","o","p","q","r","s","t","u","v","w","x","y","z">>

\* str.lower() on one character: A-Z go to a-z, everything else is kept
LowerChar(c) ==
  IF \E i \in 1..26 : UpperLetters[i] = c
    THEN LowerLetters[CHOOSE i \in 1..26 : UpperLetters[i] = c]
    ELSE c

\* str.lower()
lower(s) == [i \in 1..Len(s) |-> LowerChar(s[i])]

\* Python's `needle in hay` for strings
Contains(needle, hay) ==
  \E i \in 0..(Len(hay) - Len(needle)) :
    \A j \in 1..Len(needle) : hay[i + j] = needle[j]

----------------------------------------------------------------------------
(* data_models: ActionType, AgentAction, GatekeeperResponse *)

ASK_QUESTIONS == "ASK_QUESTIONS"
REQUEST_TESTS == "REQUEST_TESTS"
\* the enumeration has a member the gatekeeper has no branch for
ActionType == {ASK_QUESTIONS, REQUEST_TESTS, "DIAGNOSE"}

AgentAction(action_type, content) ==
  [action_type |-> action_type, content |-> content]

Return(v) == [kind |-> "return", value |-> v]
Raise(e, m) == [kind |-> "raise", error |-> e, message |-> m]

\* what a sub-agent call can end in: a GatekeeperResponse or an exception
GatekeeperResponses == 1..NumResponses
SubAgentErrors == {"ValueError", "TimeoutError"}
SubAgentOutcomes ==
  {Return(r) : r \in GatekeeperResponses}
    \cup {Raise(e, "sub-agent failure") : e \in SubAgentErrors}

----------------------------------------------------------------------------
(* GatekeeperAgent *)

PatientAgent(config) == [class |-> "PatientAgent", config |-> config]
ExaminationAgent(config) == [class |-> "ExaminationAgent", config |-> config]
ModelOf(agent) == <<agent.config, agent.class>>

\* __init__
GatekeeperAgent(config) ==
  [config |-> config,
   patient_agent |-> PatientAgent(config),
   examination_agent |-> ExaminationAgent(config),
   model |-> <<"patient=", ModelOf(PatientAgent(config)),
               ", exam=", ModelOf(ExaminationAgent(config))>>]

broad_indicators ==
  << <<"t","e","l","l"," ","m","e"," ","e","v","e","r","y","t","h","i","n","g">>,
     <<"w","h","a","t","'","s"," ","w","r","o","n","g">>,
     <<"w","h","a","t"," ","s","h","o","u","l","d"," ","I"," ","d","o">>,
     <<"g","i","v","e"," ","m","e"," ","a","l","l"," ","i","n","f","o","r","m","a","t","i","o","n">>,
     <<"s","u","m","m","a","r","i","z","e"," ","t","h","e"," ","c","a","s","e">> >>

vague_indicators ==
  << <<"r","u","n"," ","b","l","o","o","d"," ","w","o","r","k">>,
     <<"d","o"," ","s","o","m","e"," ","i","m","a","g","i","n","g">>,
     <<"o","r","d","e","r"," ","l","a","b","s">>,
     <<"g","e","t"," ","t","e","s","t","s">>,
     <<"r","u","n"," ","d","i","a","g","n","o","s","t","i","c","s">> >>

BroadMessage ==
  "Please ask more specific questions about the patient's history or examination findings."
VagueMessage ==
  "Please specify the exact test you would like to order (e.g., 'Complete Blood Count', 'CT of the abdomen with contrast')."

\* a validation that forgets to lower-case the content
validate_request_cased(action) ==
  IF action.action_type = ASK_QUESTIONS
    THEN IF \E k \in 1..Len(broad_indicators) :
              Contains(broad_indicators[k], action.content)
           THEN <<FALSE, BroadMessage>>
           ELSE <<TRUE, "">>
  ELSE IF action.action_type = REQUEST_TESTS
    THEN IF \E k \in 1..Len(vague_indicators) :
              Contains(vague_indicators[k], action.content)
           THEN <<FALSE, VagueMessage>>
           ELSE <<TRUE, "">>
  ELSE <<TRUE, "">>

\* a validation whose test branch scans the question phrases
validate_request_pasted(action) ==
  IF action.action_type = ASK_QUESTIONS
    THEN IF \E k \in 1..Len(broad_indicators) :
              Contains(broad_indicators[k], lower(action.content))
           THEN <<FALSE, BroadMessage>>
           ELSE <<TRUE, "">>
  ELSE IF action.action_type = REQUEST_TESTS
    THEN IF \E k \in 1..Len(broad_indicators) :
              Contains(broad_indicators[k], lower(action.content))
           THEN <<FALSE, VagueMessage>>
           ELSE <<TRUE, "">>
  ELSE <<TRUE, "">>

\* a validation whose first branch covers everything that is not a test
validate_request_default(action) ==
  IF action.action_type = REQUEST_TESTS
    THEN IF \E k \in 1..Len(vague_indicators) :
              Contains(vague_indicators[k], lower(action.content))
           THEN <<FALSE, VagueMessage>>
           ELSE <<TRUE, "">>
  ELSE IF \E k \in 1..Len(broad_indicators) :
            Contains(broad_indicators[k], lower(action.content))
         THEN <<FALSE, BroadMessage>>
         ELSE <<TRUE, "">>

\* a validation that waves through whatever was dispatched just before
validate_request_remembering(action) ==
  IF op = "process_action" /\ arg.action = action
    THEN <<TRUE, "">>
  ELSE IF action.action_type = ASK_QUESTIONS
    THEN IF \E k \in 1..Len(broad_indicators) :
              Contains(broad_indicators[k], lower(action.content))
           THEN <<FALSE, BroadMessage>>
           ELSE <<TRUE, "">>
  ELSE IF action.action_type = REQUEST_TESTS
    THEN IF \E k \in 1..Len(vague_indicators) :
              Contains(vague_indicators[k], lower(action.content))
           THEN <<FALSE, VagueMessage>>
           ELSE <<TRUE, "">>
  ELSE <<TRUE, "">>

\* validate_request
validate_request(action) ==
  IF action.action_type = ASK_QUESTIONS
    THEN LET question_lower == lower(action.content) IN
         IF \E k \in 1..Len(broad_indicators) :
              Contains(broad_indicators[k], question_lower)
           THEN <<FALSE, BroadMessage>>
           ELSE <<TRUE, "">>
  ELSE IF action.action_type = REQUEST_TESTS
    THEN LET test_lower == lower(action.content) IN
         IF \E k \in 1..Len(vague_indicators) :
              Contains(vague_indicators[k], test_lower)
           THEN <<FALSE, VagueMessage>>
           ELSE <<TRUE, "">>
  ELSE <<TRUE, "">>

Call(agent, method, content, case_file, outcome) ==
  [agent |-> agent, method |-> method, args |-> <<content, case_file>>,
   outcome |-> outcome]

\* a dispatch that sends questions to the examination agent
process_action_misrouted(this, action, case_file, answer, fetched) ==
  IF action.action_type \in {ASK_QUESTIONS, REQUEST_TESTS}
    THEN [calls |-> <<Call(this.examination_agent, "fetch_result",
                           action.content, case_file, fetched)>>,
          outcome |-> fetched]
  ELSE [calls |-> <<>>,
        outcome |-> Raise("ValueError",
                          <<"Gatekeeper cannot process action type: ",
                            action.action_type>>)]

\* a dispatch whose second branch is an else: every other type is a test
process_action_else(this, action, case_file, answer, fetched) ==
  IF action.action_type = ASK_QUESTIONS
    THEN [calls |-> <<Call(this.patient_agent, "answer_question",
                           action.content, case_file, answer)>>,
          outcome |-> answer]
  ELSE [calls |-> <<Call(this.examination_agent, "fetch_result",
                         action.content, case_file, fetched)>>,
        outcome |-> fetched]

\* a dispatch that wraps the delegation in try/except and falls through
process_action_catching(this, action, case_file, answer, fetched) ==
  LET failure == Raise("ValueError",
                       <<"Gatekeeper cannot process action type: ",
                         action.action_type>>) IN
  IF action.action_type = ASK_QUESTIONS
    THEN [calls |-> <<Call(this.patient_agent, "answer_question",
                           action.content, case_file, answer)>>,
          outcome |-> IF answer.kind = "raise" THEN failure ELSE answer]
  ELSE IF action.action_type = REQUEST_TESTS
    THEN [calls |-> <<Call(this.examination_agent, "fetch_result",
                           action.content, case_file, fetched)>>,
          outcome |-> IF fetched.kind = "raise" THEN failure ELSE fetched]
  ELSE [calls |-> <<>>, outcome |-> failure]

\* a dispatch that re-checks the request and refuses a rejected one
process_action_gated(this, action, case_file, answer, fetched) ==
  IF ~validate_request(action)[1]
    THEN [calls |-> <<>>,
          outcome |-> Raise("ValueError", validate_request(action)[2])]
  ELSE IF action.action_type = ASK_QUESTIONS
    THEN [calls |-> <<Call(this.patient_agent, "answer_question",
                           action.content, case_file, answer)>>,
          outcome |-> answer]
  ELSE IF action.action_type = REQUEST_TESTS
    THEN [calls |-> <<Call(this.examination_agent, "fetch_result",
                           action.content, case_file, fetched)>>,
          outcome |-> fetched]
  ELSE [calls |-> <<>>,
        outcome |-> Raise("ValueError",
                          <<"Gatekeeper cannot process action type: ",
                            action.action_type>>)]

\* process_action.  answer and fetched are what the patient agent and the
\* examination agent do if they are called with these arguments.
process_action(this, action, case_file, answer, fetched) ==
  IF action.action_type = ASK_QUESTIONS
    THEN [calls |-> <<Call(this.patient_agent, "answer_question",
                           action.content, case_file, answer)>>,
          outcome |-> answer]
  ELSE IF action.action_type = REQUEST_TESTS
    THEN [calls |-> <<Call(this.examination_agent, "fetch_result",
                           action.content, case_file, fetched)>>,
          outcome |-> fetched]
  ELSE [calls |-> <<>>,
        outcome |-> Raise("ValueError",
                          <<"Gatekeeper cannot process action type: ",
                            action.action_type>>)]

----------------------------------------------------------------------------
(* The caller's inputs *)

Configs == {"config"}
CaseIds == 1..NumCases
NoCase == 0
NoValidation == [called |-> FALSE]

\* contents of the documented scenarios, and the third broad phrase as typed
ScenarioContents ==
  { <<"T","e","l","l"," ","m","e"," ","e","v","e","r","y","t","h","i","n","g"," ","a","b","o","u","t"," ","t","h","i","s"," ","p","a","t","i","e","n","t">>,
    <<"D","o","e","s"," ","t","h","e"," ","p","a","t","i","e","n","t"," ","h","a","v","e"," ","a"," ","f","e","v","e","r","?">>,
    <<"o","r","d","e","r"," ","l","a","b","s">>,
    <<"C","T"," ","o","f"," ","t","h","e"," ","a","b","d","o","m","e","n"," ","w","i","t","h"," ","c","o","n","t","r","a","s","t">>,
    <<"W","h","a","t"," ","s","h","o","u","l","d"," ","I"," ","d","o"," ","n","e","x","t","?">> }

Actions == {AgentAction(t, c) : t \in ActionType, c \in ScenarioContents}

\* phrase-like bodies: every indicator, near misses, and ordinary requests
Indicators ==
  {broad_indicators[k] : k \in 1..Len(broad_indicators)}
    \cup {vague_indicators[k] : k \in 1..Len(vague_indicators)}
NearMisses ==
  { <<"t","e","l","l"," ","m","e"," ","e","v","e","r","y"," ","t","h","i","n","g">>,
    <<"o","r","d","e","r"," ","l","a","b">>,
    <<"s","u","m","m","a","r","i","z","e"," ","t","h","e"," ","c","a","s">>,
    <<"f","e","v","e","r","?">>,
    <<>> }
Bodies == Indicators \cup NearMisses

UpperChar(c) ==
  IF \E i \in 1..26 : LowerLetters[i] = c
    THEN UpperLetters[CHOOSE i \in 1..26 : LowerLetters[i] = c]
    ELSE c
upper(s) == [i \in 1..Len(s) |-> UpperChar(s[i])]
Casings(s) == {s, lower(s), upper(s)}

PadChars == {"S", " "}
Pads == UNION {[1..n -> PadChars] : n \in 0..MaxPad}

WideContents ==
  {pre \o body \o suf :
     pre \in Pads, suf \in Pads, body \in UNION {Casings(b) : b \in Bodies}}
WideActions == {AgentAction(t, c) : t \in ActionType, c \in WideContents}

----------------------------------------------------------------------------
(* State machine *)

Constructed ==
  /\ self \in {GatekeeperAgent(config) : config \in Configs}
  /\ caseFiles = [c \in CaseIds |-> [id |-> c, revision |-> 0]]
  /\ op = "init"
  /\ arg = [action |-> AgentAction("", <<>>), case_file |-> NoCase]
  /\ calls = <<>>
  /\ ret = Return("constructed")
  /\ firstValidation = NoValidation

\* the caller may interleave calls on any of the scenario actions
Init == Constructed /\ inputs = Actions

\* the caller holds one action, drawn from the wide set
InitWide == Constructed /\ inputs \in {{a} : a \in WideActions}

ValidateRequest(action) ==
  /\ op' = "validate_request"
  /\ arg' = [action |-> action, case_file |-> NoCase]
  /\ calls' = <<>>
  /\ ret' = Return(validate_request(action))
  /\ firstValidation' =
       IF firstValidation.called THEN firstValidation
       ELSE [called |-> TRUE, action |-> action,
             result |-> validate_request(action), then_processed |-> FALSE]
  /\ UNCHANGED <<self, caseFiles, inputs>>

\* a dispatch that keeps the agent it used and stamps the case
ProcessAction_writing(action, case_file, answer, fetched) ==
  LET done == process_action(self, action, case_file, answer, fetched) IN
  /\ op' = "process_action"
  /\ arg' = [action |-> action, case_file |-> case_file]
  /\ calls' = done.calls
  /\ ret' = done.outcome
  /\ firstValidation' =
       IF firstValidation.called
         THEN [firstValidation EXCEPT !.then_processed = TRUE]
         ELSE firstValidation
  /\ self' = IF action.action_type = REQUEST_TESTS
               THEN [self EXCEPT !.patient_agent = self.examination_agent]
               ELSE self
  /\ caseFiles' = [caseFiles EXCEPT ![case_file].revision = 1]
  /\ UNCHANGED inputs

ProcessAction(action, case_file, answer, fetched) ==
  LET done == process_action(self, action, case_file, answer, fetched) IN
  /\ op' = "process_action"
  /\ arg' = [action |-> action, case_file |-> case_file]
  /\ calls' = done.calls
  /\ ret' = done.outcome
  /\ firstValidation' =
       IF firstValidation.called
         THEN [firstValidation EXCEPT !.then_processed = TRUE]
         ELSE firstValidation
  /\ UNCHANGED <<self, caseFiles, inputs>>

Next ==
  \/ \E action \in inputs : ValidateRequest(action)
  \/ \E action \in inputs, case_file \in CaseIds :
       \E answer \in SubAgentOutcomes, fetched \in SubAgentOutcomes :
         ProcessAction(action, case_file, answer, fetched)

Spec == Init /\ [][Next]_vars
SpecWide == InitWide /\ [][Next]_vars

----------------------------------------------------------------------------
(* Vocabulary of the properties *)

KnownTypes == {ASK_QUESTIONS, REQUEST_TESTS}

\* p occurs in s at some position, by walking s from the left
RECURSIVE Occurs(_, _)
Occurs(p, s) ==
  IF Len(p) > Len(s) THEN FALSE
  ELSE IF SubSeq(s, 1, Len(p)) = p THEN TRUE
  ELSE Occurs(p, Tail(s))

BroadPhrases == {broad_indicators[k] : k \in 1..Len(broad_indicators)}
VaguePhrases == {vague_indicators[k] : k \in 1..Len(vague_indicators)}

\* s contains p written in some letter-casing
OccursAnyCase(p, s) == Occurs(lower(p), lower(s))

Validated == op = "validate_request"
Processed == op = "process_action"
TheType == arg.action.action_type
TheContent == arg.action.content

AgentFor(t) ==
  IF t = ASK_QUESTIONS THEN self.patient_agent ELSE self.examination_agent
MethodFor(t) ==
  IF t = ASK_QUESTIONS THEN "answer_question" ELSE "fetch_result"
ClassFor(t) ==
  IF t = ASK_QUESTIONS THEN "PatientAgent" ELSE "ExaminationAgent"

\* the last call made exactly one sub-agent call: the one for type t, with
\* the caller's content and case
DelegatedOnce(t) ==
  /\ Len(calls) = 1
  /\ calls[1].agent = AgentFor(t)
  /\ calls[1].agent.class = ClassFor(t)
  /\ calls[1].method = MethodFor(t)
  /\ calls[1].args = <<TheContent, arg.case_file>>

----------------------------------------------------------------------------
(* Properties *)

\* C1: process_action on ASK_QUESTIONS calls the patient agent's
\* answer_question, on REQUEST_TESTS the examination agent's fetch_result,
\* exactly once, with (action.content, case_file), calls nothing else, and
\* returns what that call returned.
C1_DispatchToOneResponder ==
  (Processed /\ TheType \in KnownTypes) =>
     /\ DelegatedOnce(TheType)
     /\ calls[1].outcome.kind = "return" => ret = calls[1].outcome

C1_Witness ==
  /\ Processed
  /\ TheType = REQUEST_TESTS
  /\ TheContent = <<"C","T"," ","o","f"," ","t","h","e"," ","a","b","d","o","m","e","n"," ","w","i","t","h"," ","c","o","n","t","r","a","s","t">>
  /\ Len(calls) = 1
  /\ calls[1].agent.class = "ExaminationAgent"
  /\ ret = Return(2)

\* C2 as stated: process_action on a type outside the two known ones fails
\* with the error kind UnsupportedActionError and calls no sub-agent.
C2_UnsupportedActionError ==
  (Processed /\ TheType \notin KnownTypes) =>
     /\ ret.kind = "raise"
     /\ ret.error = "UnsupportedActionError"
     /\ calls = <<>>

\* C2 amended: process_action on a type outside the two known ones raises a
\* ValueError whose message names the action type, returns nothing, and
\* calls no sub-agent.
C2_ValueError ==
  (Processed /\ TheType \notin KnownTypes) =>
     /\ ret = Raise("ValueError",
                    <<"Gatekeeper cannot process action type: ", TheType>>)
     /\ calls = <<>>

C2_Witness ==
  /\ Processed
  /\ TheType = "DIAGNOSE"
  /\ ret.kind = "raise"
  /\ calls = <<>>

\* C3: validate_request on ASK_QUESTIONS returns (False, broad message) if
\* the lower-cased content contains a broad phrase and (True, "") if it
\* contains none; vague phrases do not matter.
C3_AskQuestionValidation ==
  (Validated /\ TheType = ASK_QUESTIONS) =>
     ret = Return(IF \E p \in BroadPhrases : Occurs(p, lower(TheContent))
                    THEN <<FALSE, BroadMessage>>
                    ELSE <<TRUE, "">>)

C3_Witness ==
  /\ Validated
  /\ TheType = ASK_QUESTIONS
  /\ TheContent = <<"S">> \o upper(broad_indicators[1]) \o <<" ">>
  /\ ret = Return(<<FALSE, BroadMessage>>)

\* C4: validate_request on REQUEST_TESTS returns (False, vague message) if
\* the lower-cased content contains a vague phrase and (True, "") if it
\* contains none; broad phrases do not matter.
C4_RequestTestValidation ==
  (Validated /\ TheType = REQUEST_TESTS) =>
     ret = Return(IF \E p \in VaguePhrases : Occurs(p, lower(TheContent))
                    THEN <<FALSE, VagueMessage>>
                    ELSE <<TRUE, "">>)

C4_Witness ==
  /\ Validated
  /\ TheType = REQUEST_TESTS
  /\ TheContent = <<" ">> \o upper(vague_indicators[5]) \o <<"S">>
  /\ ret = Return(<<FALSE, VagueMessage>>)

\* C5: matching is case-insensitive substring containment for every listed
\* phrase: a content that contains a phrase of its type's list in any
\* letter-casing, anywhere, is rejected.
C5_CaseInsensitiveForEveryPhrase ==
  /\ (Validated /\ TheType = ASK_QUESTIONS
        /\ \E p \in BroadPhrases : OccursAnyCase(p, TheContent))
       => ret = Return(<<FALSE, BroadMessage>>)
  /\ (Validated /\ TheType = REQUEST_TESTS
        /\ \E p \in VaguePhrases : OccursAnyCase(p, TheContent))
       => ret = Return(<<FALSE, VagueMessage>>)

\* C6: validate_request on any other type returns (True, "") whatever the
\* content, without raising; such an action fails only in process_action.
C6_UnknownTypePassesValidation ==
  (TheType \notin KnownTypes) =>
     /\ Validated => ret = Return(<<TRUE, "">>)
     /\ Processed => (ret.kind = "raise" /\ calls = <<>>)

C6_Witness ==
  /\ Validated
  /\ TheType = "DIAGNOSE"
  /\ \E p \in BroadPhrases \cup VaguePhrases : Occurs(p, lower(TheContent))
  /\ firstValidation.called
  /\ firstValidation.then_processed
  /\ ret = Return(<<TRUE, "">>)

\* C7: when the sub-agent that process_action calls raises, process_action
\* ends in that same error, and has called nothing else.
C7_ResponderErrorPropagates ==
  (Processed /\ calls # <<>> /\ calls[1].outcome.kind = "raise") =>
     /\ ret = calls[1].outcome
     /\ Len(calls) = 1

C7_Witness ==
  /\ Processed
  /\ TheType = ASK_QUESTIONS
  /\ Len(calls) = 1
  /\ ret = Raise("ValueError", "sub-agent failure")

\* C8: validate_request is a pure function of (action_type, content): it
\* takes no case, calls no sub-agent, writes nothing, and gives the same
\* result as the first call on an equal action, whatever happened between.
C8_ValidateIsPure ==
  /\ [](Validated =>
          /\ calls = <<>>
          /\ arg.case_file = NoCase
          /\ (firstValidation.called /\ firstValidation.action = arg.action)
               => ret = Return(firstValidation.result))
  /\ [][Validated' => UNCHANGED <<self, caseFiles>>]_vars

C8_Witness ==
  /\ Validated
  /\ firstValidation.called
  /\ firstValidation.then_processed
  /\ firstValidation.action = arg.action
  /\ TheType = ASK_QUESTIONS
  /\ ret = Return(<<FALSE, BroadMessage>>)

\* C9: process_action does not re-check validate_request: an action of a
\* known type that validate_request rejects is still delegated, with
\* (action.content, case_file), and the sub-agent's outcome is the result,
\* whether or not validate_request was called before.
C9_ProcessIgnoresValidation ==
  (Processed /\ TheType \in KnownTypes /\ ~validate_request(arg.action)[1]) =>
     /\ calls # <<>>
     /\ calls[1].args = <<TheContent, arg.case_file>>
     /\ calls[1].method = MethodFor(TheType)
     /\ ret = calls[1].outcome

C9_Witness ==
  /\ Processed
  /\ firstValidation.called
  /\ firstValidation.action = arg.action
  /\ firstValidation.result = <<FALSE, VagueMessage>>
  /\ TheType = REQUEST_TESTS
  /\ calls # <<>>
  /\ ret.kind = "return"

\* C10: no call changes the gatekeeper's attributes (config, patient_agent,
\* examination_agent, model) or a case file; they stay as constructed.
C10_RouterWritesNothing ==
  /\ [](self \in {GatekeeperAgent(config) : config \in Configs})
  /\ [][self' = self /\ caseFiles' = caseFiles]_vars

C10_Witness ==
  /\ Processed
  /\ TheType = REQUEST_TESTS
  /\ ret.kind = "raise"
  /\ firstValidation.called
  /\ ~firstValidation.result[1]
  /\ self = GatekeeperAgent("config")

============================================================================
